---------------------------- MODULE Spec2Model ----------------------------
(***************************************************************************)
(* A model of yolo.py: the YOLO detector's construction (__init__,         *)
(* _get_class, _get_anchors, generate), detect_image, close_session and    *)
(* the streaming loop detect_video.                                        *)
(*                                                                         *)
(* Three specifications share the variables:                               *)
(*   Spec       construction of a detector from caller overrides, followed *)
(*              by one detect_image call and close_session;                *)
(*   SpecImage  detect_image on a default detector, over images and raw    *)
(*              boxes returned by inference;                               *)
(*   SpecVideo  detect_video on a default detector.                        *)
(*                                                                         *)
(* Raw box coordinates are floats in the program; the model keeps them in  *)
(* half pixels (an integer r stands for r / 2).  Time is kept in ticks,    *)
(* TicksPerUnit ticks to the time unit of timer().                         *)
(***************************************************************************)
EXTENDS Integers, Sequences, FiniteSets, TLC

VARIABLES
    \* ---- the detector object and its construction
    pc,            \* position inside YOLO.__init__ / generate, or its outcome
    kwargs,        \* the overrides the caller passed to the YOLO constructor
    self_dict,     \* the configuration attributes in self.__dict__
    class_names,   \* self.class_names
    anchors,       \* len(self.anchors): rows of the anchors array
    sess,          \* self.sess: "none", "open" or "closed"
    yolo_model,    \* self.yolo_model
    load_failed,   \* load_model raised
    asserted,      \* the channel-depth assertion of generate was evaluated
    colors,        \* self.colors
    rng,           \* the state of numpy's global generator
    caller_seed,   \* the seed the caller gave the global generator beforehand
    err,           \* the message of the exception raised, "" when none
    \* ---- detect_image
    image,         \* the image passed to detect_image
    out_boxes,     \* the raw boxes returned by sess.run
    rendered,      \* the boxes drawn, in drawing order
    processed,     \* letterbox and inference ran on the image
    \* ---- detect_video
    vpc,           \* position inside detect_video, or its outcome
    vid,           \* the capture device: "none", "open", "released"
    out,           \* the output sink: "none", "open", "released"
    isOutput,
    framesLeft,    \* frames the capture source still holds
    return_value,  \* what the last vid.read() returned
    reads,         \* reads that returned a frame
    detected,      \* frames yolo.detect_image ran on
    shown,         \* frames passed to cv2.imshow
    written,       \* frames passed to out.write
    polls,         \* calls of cv2.waitKey
    cancelled,     \* a poll observed the key 'q'
    closes,        \* calls of yolo.close_session
    accum_time,
    curr_fps,
    fps,
    exec_time

ctorVars  == <<pc, kwargs, self_dict, class_names, anchors, sess, yolo_model,
               load_failed, asserted, colors, rng, caller_seed, err>>
imageVars == <<image, out_boxes, rendered, processed>>
videoVars == <<vpc, vid, out, isOutput, framesLeft, return_value, reads,
               detected, shown, written, polls, cancelled, closes,
               accum_time, curr_fps, fps, exec_time>>
vars      == <<ctorVars, imageVars, videoVars>>

---------------------------------------------------------------------------
(* Bounds of the model.                                                    *)

MaxFloats  == 13   \* floats on the line of the anchors file: 0..MaxFloats
MaxClasses == 1    \* lines of the classes file: 0..MaxClasses
MaxDepth   == 19   \* output channel depth of a loaded artifact: 0..MaxDepth
MaxSeed    == 2    \* seeds a caller, or the OS entropy, may provide: 1..MaxSeed
MaxDim     == 2    \* image width and height: 1..MaxDim
MaxOver    == 2    \* half pixels a raw box edge may lie outside the image
MaxFrames  == 3    \* frames a capture source holds: 0..MaxFrames
MaxExec    == 3    \* ticks one loop iteration may take: 0..MaxExec
TicksPerUnit == 2  \* ticks to the time unit

---------------------------------------------------------------------------
(* Python's None, where the program compares against it or passes it.      *)
None == -1

(* YOLO._defaults; a path is <<stem, extension>>, thresholds in percent.   *)
_defaults ==
    [ model_path       |-> <<"model_data/yolo", ".h5">>,
      anchors_path     |-> <<"model_data/yolo_anchors", ".txt">>,
      classes_path     |-> <<"model_data/coco_classes", ".txt">>,
      score            |-> 30,
      iou              |-> 45,
      model_image_size |-> <<416, 416>>,
      gpu_num          |-> 1 ]

(* YOLO.get_defaults(n): the default, or the message for an unknown name.  *)
get_defaults(n) ==
    IF n \in DOMAIN _defaults
        THEN _defaults[n]
        ELSE "Unrecognized attribute name '" \o n \o "'"

(* dict.update: the entries of kw replace or extend those of d.            *)
DictUpdate(d, kw) ==
    [k \in (DOMAIN d) \cup (DOMAIN kw) |-> IF k \in DOMAIN kw THEN kw[k] ELSE d[k]]

NoKwargs == [k \in {} |-> 0]

(* The overrides the model constructs a detector with.                     *)
KwargsChoices ==
    { NoKwargs,
      [model_image_size |-> <<None, None>>],
      [model_image_size |-> <<416, 416>>],
      [model_image_size |-> <<320, 608>>],
      [model_image_size |-> <<100, 416>>],
      [model_image_size |-> <<416, 100>>],
      [gpu_num |-> 2],
      [scroe |-> 50],
      [scroe |-> 50, model_image_size |-> <<416, 100>>],
      [model_path |-> <<"model_data/yolo", ".weights">>] }

(* str.endswith on a path.                                                 *)
endswith(path, ext) == path[Len(path)] = ext

Raise(msg) == pc' = "raised" /\ err' = msg


---------------------------------------------------------------------------
(* numpy's global generator.  A state records how it was seeded and how    *)
(* many numbers were drawn since.  seed(None) takes fresh entropy e from   *)
(* the operating system.                                                   *)
FixedSeed == 10101

np_random_seed(s, e) ==
    IF s = None
        THEN [src |-> "entropy", seed |-> e, draws |-> 0]
        ELSE [src |-> "seed",    seed |-> s, draws |-> 0]

(* np.random.shuffle: a permutation fixed by the generator's state (here   *)
(* a rotation), drawing one number per element but the last.               *)
Rotate(seq, k) ==
    [i \in 1..Len(seq) |-> seq[((i - 1 + k) % Len(seq)) + 1]]

np_random_shuffle(seq, g) ==
    IF Len(seq) = 0 THEN seq ELSE Rotate(seq, (g.seed + g.draws) % Len(seq))

AfterShuffle(seq, g) ==
    [g EXCEPT !.draws = g.draws + (IF Len(seq) = 0 THEN 0 ELSE Len(seq) - 1)]

(* hsv_tuples: the evenly spaced hues (x / n, 1., 1.), kept as <<x, n>>;    *)
(* their conversion to 8-bit RGB is colorsys's, one colour per hue.        *)
Palette(n) == [x \in 1..n |-> <<x - 1, n>>]

---------------------------------------------------------------------------
(* generate's decisions.                                                   *)

(* A variant of is_tiny_version that takes any short anchor list as tiny.  *)
is_tiny_version_AtMost6(num_anchors) == num_anchors <= 6

(* is_tiny_version = num_anchors == 6                                      *)
is_tiny_version(num_anchors) == num_anchors = 6

(* The topology the fallback builds: tiny_yolo_body with num_anchors // 2  *)
(* anchors per head, or yolo_body with num_anchors // 3.                   *)
ConstructedModel(num_anchors, num_classes) ==
    IF is_tiny_version(num_anchors)
        THEN [kind |-> "tiny", heads |-> 2, depth |-> None,
              per_head |-> num_anchors \div 2, classes |-> num_classes,
              weights |-> FALSE, multi_gpu |-> FALSE]
        ELSE [kind |-> "full", heads |-> 3, depth |-> None,
              per_head |-> num_anchors \div 3, classes |-> num_classes,
              weights |-> FALSE, multi_gpu |-> FALSE]

(* A variant of DepthMatches with floor division, num_anchors // heads.    *)
DepthMatchesFloorDiv(depth, heads, num_anchors, num_classes) ==
    depth = (num_anchors \div heads) * (num_classes + 5)

(* layers[-1].output_shape[-1] == num_anchors / len(output) * (classes+5): *)
(* true division, so the comparison is one of rationals.                   *)
DepthMatches(depth, heads, num_anchors, num_classes) ==
    depth * heads = num_anchors * (num_classes + 5)

NoModel == [kind |-> "none", heads |-> None, depth |-> None, per_head |-> None,
            classes |-> None, weights |-> FALSE, multi_gpu |-> FALSE]

MismatchMsg == "Mismatch between model and given anchor and class sizes"
H5Msg       == "Keras model or weights must be a .h5 file."
Mult32Msg   == "Multiples of 32 required"

---------------------------------------------------------------------------
(* YOLO.__init__, one action per statement.                                *)

(* self.__dict__.update(self._defaults)                                    *)
UpdateDefaults ==
    /\ pc = "init"
    /\ self_dict' = DictUpdate(self_dict, _defaults)
    /\ pc' = "kwargs"
    /\ UNCHANGED <<kwargs, class_names, anchors, sess, yolo_model, load_failed,
                   asserted, colors, rng, caller_seed, err>>

(* self.__dict__.update(kwargs)                                            *)
UpdateKwargs ==
    /\ pc = "kwargs"
    /\ self_dict' = DictUpdate(self_dict, kwargs)
    /\ pc' = "get_class"
    /\ UNCHANGED <<kwargs, class_names, anchors, sess, yolo_model, load_failed,
                   asserted, colors, rng, caller_seed, err>>

(* self.class_names = self._get_class(): one name per line of the file,    *)
(* or the open fails.                                                      *)
GetClass ==
    /\ pc = "get_class"
    /\ \/ \E n \in 0..MaxClasses :
            /\ class_names' = [i \in 1..n |-> i]
            /\ pc' = "get_anchors"
            /\ err' = err
       \/ /\ Raise("classes_path cannot be opened")
          /\ class_names' = class_names
    /\ UNCHANGED <<kwargs, self_dict, anchors, sess, yolo_model, load_failed,
                   asserted, colors, rng, caller_seed>>

(* self.anchors = self._get_anchors(): f floats on the line; float('')     *)
(* fails on an empty line and reshape(-1, 2) on an odd count.              *)
GetAnchors ==
    /\ pc = "get_anchors"
    /\ \E f \in 0..MaxFloats :
          IF f = 0 \/ f % 2 = 1
              THEN /\ Raise("malformed anchor line")
                   /\ anchors' = anchors
              ELSE /\ anchors' = f \div 2
                   /\ pc' = "get_session"
                   /\ err' = err
    /\ UNCHANGED <<kwargs, self_dict, class_names, sess, yolo_model, load_failed,
                   asserted, colors, rng, caller_seed>>

(* self.sess = K.get_session()                                             *)
GetSession ==
    /\ pc = "get_session"
    /\ sess' = "open"
    /\ pc' = "generate"
    /\ UNCHANGED <<kwargs, self_dict, class_names, anchors, yolo_model,
                   load_failed, asserted, colors, rng, caller_seed, err>>

---------------------------------------------------------------------------
(* YOLO.generate                                                           *)

(* assert model_path.endswith('.h5')                                       *)
AssertH5 ==
    /\ pc = "generate"
    /\ IF endswith(self_dict.model_path, ".h5")
          THEN pc' = "load_model" /\ err' = err
          ELSE Raise(H5Msg)
    /\ UNCHANGED <<kwargs, self_dict, class_names, anchors, sess, yolo_model,
                   load_failed, asserted, colors, rng, caller_seed>>

(* try: self.yolo_model = load_model(model_path, compile=False)            *)
(* The artifact decides the number of output heads and the channel depth   *)
(* of the last layer; or the load raises and the except branch is taken.   *)
LoadModel ==
    /\ pc = "load_model"
    /\ \/ \E heads \in {2, 3}, depth \in 0..MaxDepth :
            /\ yolo_model' = [kind |-> "loaded", heads |-> heads, depth |-> depth,
                              per_head |-> None, classes |-> None,
                              weights |-> TRUE, multi_gpu |-> FALSE]
            /\ load_failed' = FALSE
            /\ pc' = "assert_depth"
       \/ /\ load_failed' = TRUE
          /\ yolo_model' = yolo_model
          /\ pc' = "construct"
    /\ UNCHANGED <<kwargs, self_dict, class_names, anchors, sess, asserted,
                   colors, rng, caller_seed, err>>

(* except: build the topology, then self.yolo_model.load_weights(...),     *)
(* which may itself raise.                                                 *)
ConstructAndLoad ==
    /\ pc = "construct"
    /\ LET m == ConstructedModel(anchors, Len(class_names))
       IN  \/ /\ yolo_model' = [m EXCEPT !.weights = TRUE]
              /\ pc' = "colors"
              /\ err' = err
           \/ /\ yolo_model' = m
              /\ Raise("load_weights failed")
    /\ UNCHANGED <<kwargs, self_dict, class_names, anchors, sess, load_failed,
                   asserted, colors, rng, caller_seed>>

(* else: assert layers[-1].output_shape[-1] == num_anchors / len(output)   *)
(*                                               * (num_classes + 5)       *)
AssertDepth ==
    /\ pc = "assert_depth"
    /\ asserted' = TRUE
    /\ IF DepthMatches(yolo_model.depth, yolo_model.heads, anchors, Len(class_names))
          THEN pc' = "colors" /\ err' = err
          ELSE Raise(MismatchMsg)
    /\ UNCHANGED <<kwargs, self_dict, class_names, anchors, sess, yolo_model,
                   load_failed, colors, rng, caller_seed>>

(* hsv_tuples, self.colors: one colour per class, by evenly spaced hue     *)
MakeColors ==
    /\ pc = "colors"
    /\ colors' = Palette(Len(class_names))
    /\ pc' = "seed"
    /\ UNCHANGED <<kwargs, self_dict, class_names, anchors, sess, yolo_model,
                   load_failed, asserted, rng, caller_seed, err>>

(* np.random.seed(10101)                                                   *)
SeedFixed ==
    /\ pc = "seed"
    /\ rng' = np_random_seed(FixedSeed, 0)
    /\ pc' = "shuffle"
    /\ UNCHANGED <<kwargs, self_dict, class_names, anchors, sess, yolo_model,
                   load_failed, asserted, colors, caller_seed, err>>

(* np.random.shuffle(self.colors)                                          *)
ShuffleColors ==
    /\ pc = "shuffle"
    /\ colors' = np_random_shuffle(colors, rng)
    /\ rng' = AfterShuffle(colors, rng)
    /\ pc' = "reseed"
    /\ UNCHANGED <<kwargs, self_dict, class_names, anchors, sess, yolo_model,
                   load_failed, asserted, caller_seed, err>>

(* A variant of SeedNone that leaves the generator as the shuffle left it. *)
SeedNoneSkipped ==
    /\ pc = "reseed"
    /\ pc' = "multi_gpu"
    /\ UNCHANGED <<kwargs, self_dict, class_names, anchors, sess, yolo_model,
                   load_failed, asserted, colors, rng, caller_seed, err>>

(* np.random.seed(None)                                                    *)
SeedNone ==
    /\ pc = "reseed"
    /\ \E e \in 1..MaxSeed : rng' = np_random_seed(None, e)
    /\ pc' = "multi_gpu"
    /\ UNCHANGED <<kwargs, self_dict, class_names, anchors, sess, yolo_model,
                   load_failed, asserted, colors, caller_seed, err>>

(* if self.gpu_num >= 2: self.yolo_model = multi_gpu_model(...)            *)
MultiGpu ==
    /\ pc = "multi_gpu"
    /\ yolo_model' = IF self_dict.gpu_num >= 2
                        THEN [yolo_model EXCEPT !.multi_gpu = TRUE]
                        ELSE yolo_model
    /\ pc' = "yolo_eval"
    /\ UNCHANGED <<kwargs, self_dict, class_names, anchors, sess, load_failed,
                   asserted, colors, rng, caller_seed, err>>

(* boxes, scores, classes = yolo_eval(...); generate and __init__ return   *)
YoloEval ==
    /\ pc = "yolo_eval"
    /\ pc' = "done"
    /\ UNCHANGED <<kwargs, self_dict, class_names, anchors, sess, yolo_model,
                   load_failed, asserted, colors, rng, caller_seed, err>>

---------------------------------------------------------------------------
(* YOLO.detect_image                                                       *)

(* The two assertions on a fixed model_image_size.                         *)
SizeIsFixed(size) == size # <<None, None>>

(* A variant of MultipleOf32 that tests the first dimension only.          *)
MultipleOf32FirstOnly(size) == size[1] % 32 = 0

MultipleOf32(size) == size[1] % 32 = 0 /\ size[2] % 32 = 0

(* np.floor(x + 0.5).astype('int32') of a raw coordinate in half pixels.   *)
RoundHalfUp(r) == (r + 1) \div 2

Max(a, b) == IF a >= b THEN a ELSE b
Min(a, b) == IF a <= b THEN a ELSE b

(* top, left = max(0, round); bottom, right = min(image size, round)       *)
ClampBox(box, img) ==
    [ top    |-> Max(0, RoundHalfUp(box.top)),
      left   |-> Max(0, RoundHalfUp(box.left)),
      bottom |-> Min(img.h, RoundHalfUp(box.bottom)),
      right  |-> Min(img.w, RoundHalfUp(box.right)) ]

(* for i, c in reversed(list(enumerate(out_classes))): the boxes in the    *)
(* order they are drawn.                                                   *)
RenderAll(boxes, img) ==
    [i \in 1..Len(boxes) |-> ClampBox(boxes[Len(boxes) + 1 - i], img)]

(* detect_image(img), with boxes what inference returns for it.            *)
DetectImage(img, boxes) ==
    /\ pc = "done"
    /\ image' = img
    /\ IF SizeIsFixed(self_dict.model_image_size)
          /\ ~ MultipleOf32(self_dict.model_image_size)
          THEN /\ Raise(Mult32Msg)
               /\ UNCHANGED <<out_boxes, rendered, processed>>
          ELSE IF sess # "open"
          THEN /\ Raise("Attempted to use a closed Session.")
               /\ UNCHANGED <<out_boxes, rendered, processed>>
          ELSE /\ processed' = TRUE
               /\ out_boxes' = boxes
               /\ rendered' = RenderAll(boxes, img)
               /\ UNCHANGED <<pc, err>>
    /\ UNCHANGED <<kwargs, self_dict, class_names, anchors, sess, yolo_model,
                   load_failed, asserted, colors, rng, caller_seed>>

(* YOLO.close_session                                                      *)
close_session ==
    /\ pc = "done"
    /\ sess' = "closed"
    /\ UNCHANGED <<pc, kwargs, self_dict, class_names, anchors, yolo_model,
                   load_failed, asserted, colors, rng, caller_seed, err>>

NoImage == [w |-> 0, h |-> 0]

Images == [w : 1..MaxDim, h : 1..MaxDim]

(* Raw box edges, in half pixels, from MaxOver outside the image on one    *)
(* side to MaxOver outside on the other.                                   *)
RawEdge == (0 - MaxOver)..(2 * MaxDim + MaxOver)

RawBoxes == [top : RawEdge, left : RawEdge, bottom : RawEdge, right : RawEdge]

---------------------------------------------------------------------------
(* Initial states.                                                         *)

ImageIdle ==
    /\ image = NoImage
    /\ out_boxes = <<>>
    /\ rendered = <<>>
    /\ processed = FALSE

VideoIdle ==
    /\ vpc = "idle"
    /\ vid = "none"
    /\ out = "none"
    /\ isOutput = FALSE
    /\ framesLeft = 0
    /\ return_value = FALSE
    /\ reads = 0 /\ detected = 0 /\ shown = 0 /\ written = 0 /\ polls = 0
    /\ cancelled = FALSE
    /\ closes = 0
    /\ accum_time = 0 /\ curr_fps = 0 /\ fps = "FPS: ??" /\ exec_time = 0

(* Before the YOLO constructor: the caller has seeded the global generator.      *)
Init ==
    /\ pc = "init"
    /\ kwargs \in KwargsChoices
    /\ self_dict = NoKwargs
    /\ class_names = <<>>
    /\ anchors = None
    /\ sess = "none"
    /\ yolo_model = NoModel
    /\ load_failed = FALSE
    /\ asserted = FALSE
    /\ colors = <<>>
    /\ caller_seed \in 1..MaxSeed
    /\ rng = np_random_seed(caller_seed, 0)
    /\ err = ""
    /\ ImageIdle
    /\ VideoIdle

(* A detector as YOLO(model_image_size=size) leaves it: one class, six     *)
(* anchors, a loaded artifact with two heads of depth 18.                  *)
Constructed(size) ==
    /\ pc = "done"
    /\ kwargs = [model_image_size |-> size]
    /\ self_dict = DictUpdate(_defaults, [model_image_size |-> size])
    /\ class_names = <<1>>
    /\ anchors = 6
    /\ sess = "open"
    /\ yolo_model = [kind |-> "loaded", heads |-> 2, depth |-> 18,
                     per_head |-> None, classes |-> None,
                     weights |-> TRUE, multi_gpu |-> FALSE]
    /\ load_failed = FALSE
    /\ asserted = TRUE
    /\ colors = Palette(1)
    /\ caller_seed = 1
    /\ rng = np_random_seed(None, 1)
    /\ err = ""

(* Construction, then one detect_image call (no detections) and           *)
(* close_session, in either order.                                         *)
Next ==
    \/ UpdateDefaults   /\ UNCHANGED <<imageVars, videoVars>>
    \/ UpdateKwargs     /\ UNCHANGED <<imageVars, videoVars>>
    \/ GetClass         /\ UNCHANGED <<imageVars, videoVars>>
    \/ GetAnchors       /\ UNCHANGED <<imageVars, videoVars>>
    \/ GetSession       /\ UNCHANGED <<imageVars, videoVars>>
    \/ AssertH5         /\ UNCHANGED <<imageVars, videoVars>>
    \/ LoadModel        /\ UNCHANGED <<imageVars, videoVars>>
    \/ ConstructAndLoad /\ UNCHANGED <<imageVars, videoVars>>
    \/ AssertDepth      /\ UNCHANGED <<imageVars, videoVars>>
    \/ MakeColors       /\ UNCHANGED <<imageVars, videoVars>>
    \/ SeedFixed        /\ UNCHANGED <<imageVars, videoVars>>
    \/ ShuffleColors    /\ UNCHANGED <<imageVars, videoVars>>
    \/ SeedNone         /\ UNCHANGED <<imageVars, videoVars>>
    \/ MultiGpu         /\ UNCHANGED <<imageVars, videoVars>>
    \/ YoloEval         /\ UNCHANGED <<imageVars, videoVars>>
    \/ /\ image = NoImage
       /\ DetectImage([w |-> MaxDim, h |-> MaxDim], <<>>)
       /\ UNCHANGED videoVars
    \/ close_session /\ UNCHANGED <<imageVars, videoVars>>

Spec == Init /\ [][Next]_vars

(* One detect_image call on a constructed detector, over images and the    *)
(* raw box of at most one detection.                                       *)
InitImage ==
    /\ Constructed(<<416, 416>>)
    /\ ImageIdle
    /\ VideoIdle

NextImage ==
    \/ /\ image = NoImage
       /\ \E img \in Images : DetectImage(img, <<>>)
       /\ UNCHANGED videoVars
    \/ /\ image = NoImage
       /\ \E img \in Images, box \in RawBoxes : DetectImage(img, <<box>>)
       /\ UNCHANGED videoVars

SpecImage == InitImage /\ [][NextImage]_vars

---------------------------------------------------------------------------
(* detect_video(yolo, video_path, output_path), one action per step of     *)
(* its body.  ctl names what each step leaves alone of the loop's state.   *)

VRaise == vpc' = "raised"

(* vid = cv2.VideoCapture(video_path); if not vid.isOpened(): raise        *)
OpenCapture ==
    /\ vpc = "open"
    /\ \/ /\ vid' = "open"
          /\ vpc' = "setup"
       \/ /\ vid' = vid
          /\ VRaise
    /\ UNCHANGED <<out, isOutput, framesLeft, return_value, reads, detected,
                   shown, written, polls, cancelled, closes, accum_time,
                   curr_fps, fps, exec_time>>
    /\ UNCHANGED <<ctorVars, imageVars>>

(* if isOutput: out = cv2.VideoWriter(...); accum_time = 0; curr_fps = 0;  *)
(* fps = "FPS: ??"                                                         *)
Setup ==
    /\ vpc = "setup"
    /\ out' = IF isOutput THEN "open" ELSE out
    /\ accum_time' = 0
    /\ curr_fps' = 0
    /\ fps' = "FPS: ??"
    /\ vpc' = "read"
    /\ UNCHANGED <<vid, isOutput, framesLeft, return_value, reads, detected,
                   shown, written, polls, cancelled, closes, exec_time>>
    /\ UNCHANGED <<ctorVars, imageVars>>

(* return_value, frame = vid.read(): a frame, or (False, None) once the    *)
(* source is exhausted.                                                    *)
Read ==
    /\ vpc = "read"
    /\ IF framesLeft > 0
          THEN /\ return_value' = TRUE
               /\ framesLeft' = framesLeft - 1
               /\ reads' = reads + 1
          ELSE /\ return_value' = FALSE
               /\ UNCHANGED <<framesLeft, reads>>
    /\ vpc' = "fromarray"
    /\ UNCHANGED <<vid, out, isOutput, detected, shown, written, polls,
                   cancelled, closes, accum_time, curr_fps, fps, exec_time>>
    /\ UNCHANGED <<ctorVars, imageVars>>

(* image = Image.fromarray(frame): raises on the None of a failed read;    *)
(* return_value is never tested.                                           *)
FromArray ==
    /\ vpc = "fromarray"
    /\ IF return_value THEN vpc' = "detect" ELSE VRaise
    /\ UNCHANGED <<vid, out, isOutput, framesLeft, return_value, reads,
                   detected, shown, written, polls, cancelled, closes,
                   accum_time, curr_fps, fps, exec_time>>
    /\ UNCHANGED <<ctorVars, imageVars>>

(* image = yolo.detect_image(image); result = np.asarray(image)            *)
Detect ==
    /\ vpc = "detect"
    /\ DetectImage([w |-> MaxDim, h |-> MaxDim], <<>>)
    /\ IF pc' = "raised"
          THEN /\ VRaise
               /\ detected' = detected
          ELSE /\ vpc' = "timer"
               /\ detected' = detected + 1
    /\ UNCHANGED <<vid, out, isOutput, framesLeft, return_value, reads,
                   shown, written, polls, cancelled, closes, accum_time,
                   curr_fps, fps, exec_time>>

(* exec_time = curr_time - prev_time; accum_time = accum_time + exec_time; *)
(* curr_fps = curr_fps + 1                                                 *)
Timer ==
    /\ vpc = "timer"
    /\ \E t \in 0..MaxExec :
          /\ exec_time' = t
          /\ accum_time' = accum_time + t
    /\ curr_fps' = curr_fps + 1
    /\ vpc' = "fps"
    /\ UNCHANGED <<vid, out, isOutput, framesLeft, return_value, reads,
                   detected, shown, written, polls, cancelled, closes, fps>>
    /\ UNCHANGED <<ctorVars, imageVars>>

(* A variant of FpsUpdate that fires at one unit and resets to zero.       *)
FpsUpdateResetAtUnit ==
    /\ vpc = "fps"
    /\ IF accum_time >= TicksPerUnit
          THEN /\ accum_time' = 0
               /\ fps' = "FPS: " \o ToString(curr_fps)
               /\ curr_fps' = 0
          ELSE UNCHANGED <<accum_time, fps, curr_fps>>
    /\ vpc' = "show"
    /\ UNCHANGED <<vid, out, isOutput, framesLeft, return_value, reads,
                   detected, shown, written, polls, cancelled, closes, exec_time>>
    /\ UNCHANGED <<ctorVars, imageVars>>

(* if accum_time > 1: accum_time = accum_time - 1;                         *)
(*     fps = "FPS: " + str(curr_fps); curr_fps = 0                         *)
FpsUpdate ==
    /\ vpc = "fps"
    /\ IF accum_time > TicksPerUnit
          THEN /\ accum_time' = accum_time - TicksPerUnit
               /\ fps' = "FPS: " \o ToString(curr_fps)
               /\ curr_fps' = 0
          ELSE UNCHANGED <<accum_time, fps, curr_fps>>
    /\ vpc' = "show"
    /\ UNCHANGED <<vid, out, isOutput, framesLeft, return_value, reads,
                   detected, shown, written, polls, cancelled, closes, exec_time>>
    /\ UNCHANGED <<ctorVars, imageVars>>

(* cv2.putText(result, text=fps, ...); cv2.imshow("result", result)        *)
Show ==
    /\ vpc = "show"
    /\ shown' = shown + 1
    /\ vpc' = "write"
    /\ UNCHANGED <<vid, out, isOutput, framesLeft, return_value, reads,
                   detected, written, polls, cancelled, closes, accum_time,
                   curr_fps, fps, exec_time>>
    /\ UNCHANGED <<ctorVars, imageVars>>

(* if isOutput: out.write(result)                                          *)
Write ==
    /\ vpc = "write"
    /\ written' = IF isOutput THEN written + 1 ELSE written
    /\ vpc' = "waitkey"
    /\ UNCHANGED <<vid, out, isOutput, framesLeft, return_value, reads,
                   detected, shown, polls, cancelled, closes, accum_time,
                   curr_fps, fps, exec_time>>
    /\ UNCHANGED <<ctorVars, imageVars>>

(* A variant of WaitKey that returns on 'q' instead of breaking.           *)
WaitKeyReturns ==
    /\ vpc = "waitkey"
    /\ polls' = polls + 1
    /\ \E q \in BOOLEAN :
          /\ cancelled' = q
          /\ vpc' = IF q THEN "returned" ELSE "read"
    /\ UNCHANGED <<vid, out, isOutput, framesLeft, return_value, reads,
                   detected, shown, written, closes, accum_time, curr_fps,
                   fps, exec_time>>
    /\ UNCHANGED <<ctorVars, imageVars>>

(* if cv2.waitKey(1) & 0xFF == ord('q'): break                             *)
WaitKey ==
    /\ vpc = "waitkey"
    /\ polls' = polls + 1
    /\ \E q \in BOOLEAN :
          /\ cancelled' = q
          /\ vpc' = IF q THEN "close" ELSE "read"
    /\ UNCHANGED <<vid, out, isOutput, framesLeft, return_value, reads,
                   detected, shown, written, closes, accum_time, curr_fps,
                   fps, exec_time>>
    /\ UNCHANGED <<ctorVars, imageVars>>

(* yolo.close_session(), after the loop; detect_video returns              *)
CloseAfterLoop ==
    /\ vpc = "close"
    /\ close_session
    /\ closes' = closes + 1
    /\ vpc' = "returned"
    /\ UNCHANGED <<vid, out, isOutput, framesLeft, return_value, reads,
                   detected, shown, written, polls, cancelled, accum_time,
                   curr_fps, fps, exec_time>>
    /\ UNCHANGED imageVars

(* detect_video on a detector of a good or a bad fixed size, with or       *)
(* without an output path, on a source of 0..MaxFrames frames.             *)
InitVideo ==
    /\ \E size \in {<<416, 416>>, <<416, 100>>} : Constructed(size)
    /\ ImageIdle
    /\ vpc = "open"
    /\ vid = "none"
    /\ out = "none"
    /\ isOutput \in BOOLEAN
    /\ framesLeft \in 0..MaxFrames
    /\ return_value = FALSE
    /\ reads = 0 /\ detected = 0 /\ shown = 0 /\ written = 0 /\ polls = 0
    /\ cancelled = FALSE
    /\ closes = 0
    /\ accum_time = 0 /\ curr_fps = 0 /\ fps = "FPS: ??" /\ exec_time = 0

NextVideo ==
    \/ OpenCapture
    \/ Setup
    \/ Read
    \/ FromArray
    \/ Detect
    \/ Timer
    \/ FpsUpdate
    \/ Show
    \/ Write
    \/ WaitKey
    \/ CloseAfterLoop

SpecVideo == InitVideo /\ [][NextVideo]_vars

---------------------------------------------------------------------------
(* Properties.                                                             *)

VideoEnded == vpc \in {"returned", "raised"}

(* C1: when the capture source yields N frames and then a failed read, and *)
(* no key is pressed, detect_video has run detection on exactly N frames,  *)
(* returns without raising, and has closed the session exactly once.       *)
C1_EndOfStreamExitsCleanly ==
    (VideoEnded /\ vid = "open" /\ ~ return_value /\ ~ cancelled)
        => /\ detected = reads
           /\ vpc = "returned"
           /\ closes = 1

(* C2: on every exit of detect_video, returning or raising, the capture    *)
(* device it opened and the output sink it opened have been released.      *)
C2_HandlesReleasedOnExit ==
    (VideoEnded /\ vid # "none")
        => /\ vid = "released"
           /\ isOutput => out = "released"

(* C3: an override whose name is not a default configuration name is       *)
(* rejected with the unrecognized-name report and never becomes an         *)
(* attribute of the detector.                                              *)
C3_UnknownOverrideRejected ==
    \A k \in (DOMAIN kwargs) \ (DOMAIN _defaults) :
        pc \notin {"init", "kwargs"}
            => /\ k \notin DOMAIN self_dict
               /\ pc = "raised"
               /\ err = get_defaults(k)

DetectErrors == {Mult32Msg, "Attempted to use a closed Session."}

(* C4: once load_model has succeeded, the depth assertion is evaluated;    *)
(* construction goes on exactly when depth * heads equals                  *)
(* num_anchors * (num_classes + 5), fails with the mismatch message        *)
(* otherwise, and the loaded model is never replaced by a constructed one. *)
C4_DepthAssertionDecides ==
    LET matches == yolo_model.depth * yolo_model.heads
                       = anchors * (Len(class_names) + 5)
    IN  /\ (yolo_model.kind = "loaded" /\ pc # "assert_depth") => asserted
        /\ asserted =>
              /\ yolo_model.kind = "loaded"
              /\ ~ load_failed
              /\ matches <=> err # MismatchMsg
              /\ matches => (pc = "raised" => err \in DetectErrors)
              /\ ~ matches => pc = "raised"

(* C4 witness: a loaded artifact whose depth is one more than expected was *)
(* rejected with the mismatch message.                                     *)
C4_Witness ==
    /\ asserted
    /\ pc = "raised"
    /\ err = MismatchMsg
    /\ anchors = 6
    /\ (yolo_model.depth - 1) * yolo_model.heads = anchors * (Len(class_names) + 5)

(* C5: a model is constructed only after load_model failed; it is the tiny *)
(* topology with num_anchors // 2 anchors per head exactly when there are  *)
(* six anchors, else the full one with num_anchors // 3; weights are then  *)
(* loaded into it, and the depth assertion is never evaluated.             *)
C5_FallbackTopology ==
    /\ yolo_model.kind \in {"tiny", "full"} <=> (load_failed /\ pc # "construct")
    /\ yolo_model.kind \in {"tiny", "full"} =>
          /\ ~ asserted
          /\ yolo_model.kind = "tiny" <=> anchors = 6
          /\ yolo_model.kind = "tiny" => yolo_model.per_head = anchors \div 2
          /\ yolo_model.kind = "full" => yolo_model.per_head = anchors \div 3
          /\ yolo_model.classes = Len(class_names)
          /\ ~ yolo_model.weights => (pc = "raised" /\ err = "load_weights failed")

(* C5 witness: construction completed on the fallback with four anchors.   *)
C5_Witness ==
    /\ pc = "done"
    /\ load_failed
    /\ anchors = 4
    /\ yolo_model.kind = "full"
    /\ yolo_model.per_head = 1
    /\ yolo_model.weights

(* C6 as stated: the multiple-of-32 error is raised before the session is  *)
(* obtained and before the model is loaded.                                *)
C6_FailsBeforeResources ==
    err = Mult32Msg => (sess = "none" /\ yolo_model.kind = "none")

(* C6 amended: construction does not test the size; the error is raised by *)
(* detect_image, with session and model in place, before the image is      *)
(* letterboxed or inferred on; an image is processed only under the        *)
(* derive-from-image size or a size whose dimensions are multiples of 32.  *)
C6_FailsAtDetectImage ==
    LET size == self_dict.model_image_size
    IN  /\ err = Mult32Msg =>
              /\ image # NoImage
              /\ ~ processed
              /\ sess # "none"
              /\ yolo_model.kind # "none"
              /\ size # <<None, None>>
              /\ size[1] % 32 # 0 \/ size[2] % 32 # 0
        /\ processed =>
              \/ size = <<None, None>>
              \/ size[1] % 32 = 0 /\ size[2] % 32 = 0

(* C6 witness: detect_image rejected a size whose second dimension only is *)
(* no multiple of 32, on a detector that holds a session and a model.      *)
C6_Witness ==
    /\ err = Mult32Msg
    /\ self_dict.model_image_size = <<416, 100>>
    /\ sess = "open"
    /\ yolo_model.weights

InBounds(v, dim) == 0 <= v /\ v < dim

(* C7: every edge of every box drawn lies in [0, image dimension), and is  *)
(* the round-half-up of the raw value when that lies there already.        *)
C7_EdgesInsideImage ==
    \A i \in 1..Len(rendered) :
        LET b   == rendered[i]
            raw == out_boxes[Len(out_boxes) + 1 - i]
        IN  /\ InBounds(b.top, image.h)    /\ InBounds(b.bottom, image.h)
            /\ InBounds(b.left, image.w)   /\ InBounds(b.right, image.w)
            /\ InBounds(RoundHalfUp(raw.top), image.h)
                   => b.top = RoundHalfUp(raw.top)
            /\ InBounds(RoundHalfUp(raw.bottom), image.h)
                   => b.bottom = RoundHalfUp(raw.bottom)
            /\ InBounds(RoundHalfUp(raw.left), image.w)
                   => b.left = RoundHalfUp(raw.left)
            /\ InBounds(RoundHalfUp(raw.right), image.w)
                   => b.right = RoundHalfUp(raw.right)

C9_CancelPolledPerIteration ==
    /\ polls <= reads /\ reads <= polls + 1
    /\ vpc = "waitkey" =>
          /\ detected = polls + 1
          /\ shown = polls + 1
          /\ isOutput => written = polls + 1
    /\ cancelled =>
          /\ vpc \in {"close", "returned"}
          /\ reads = polls /\ detected = polls /\ shown = polls
          /\ isOutput => written = polls
    /\ vpc = "returned" => (cancelled /\ closes = 1 /\ sess = "closed")
    /\ vpc # "returned" => closes = 0

(* C9 witness: the key was seen at the poll of the second iteration and    *)
(* detect_video returned.                                                  *)
C9_Witness ==
    /\ vpc = "returned"
    /\ cancelled
    /\ polls = 2
    /\ framesLeft > 0
    /\ closes = 1

(* C10 as stated: as soon as the accumulated time is at least one unit the *)
(* displayed FPS becomes the frame count and both counters become zero.    *)
C10_ResetAtOneUnit ==
    [][ vpc = "fps" =>
          IF accum_time >= TicksPerUnit
              THEN /\ fps' = "FPS: " \o ToString(curr_fps)
                   /\ accum_time' = 0
                   /\ curr_fps' = 0
              ELSE UNCHANGED <<fps, accum_time, curr_fps>> ]_vars

(* C10 amended: the window closes only once the accumulated time exceeds   *)
(* one unit; the displayed FPS then becomes the frame count, the frame     *)
(* count becomes zero and the accumulated time is reduced by one unit, the *)
(* remainder carried over; the display starts as the placeholder and       *)
(* changes at no other step.                                               *)
C10_CarryOver ==
    [][ /\ vpc = "fps" =>
              IF accum_time > TicksPerUnit
                  THEN /\ fps' = "FPS: " \o ToString(curr_fps)
                       /\ accum_time' = accum_time - TicksPerUnit
                       /\ curr_fps' = 0
                  ELSE UNCHANGED <<fps, accum_time, curr_fps>>
        /\ vpc = "setup" => fps' = "FPS: ??"
        /\ vpc \notin {"fps", "setup"} => fps' = fps ]_vars

(* C10 witness: a window closed with a remainder carried over.             *)
C10_Witness ==
    /\ vpc = "show"
    /\ fps # "FPS: ??"
    /\ curr_fps = 0
    /\ accum_time > 0

=============================================================================
